---- MODULE Spec2Model ----
(***************************************************************************)
(* Model of streamlit_app.py: a Streamlit client of a Databricks model     *)
(* serving endpoint.  Streamlit runs the script top to bottom once per     *)
(* user interaction; a run in which a button is pressed executes that      *)
(* button's handler.  The handler validates the widgets it reads, builds a *)
(* payload, blocks in requests.post (call_endpoint) and renders the        *)
(* outcome.  The model has one action per button handler (up to the        *)
(* blocking POST) and one action for the return of requests.post (the rest *)
(* of the handler).                                                        *)
(*                                                                         *)
(* Strings whose characters matter (host, text_input) are sequences of     *)
(* one-character strings; JSON texts are sequences of lexical tokens.      *)
(***************************************************************************)
EXTENDS Integers, Sequences, FiniteSets, TLC

VARIABLES
    host,           \* sidebar: Databricks host
    token,          \* sidebar: personal access token
    endpoint_name,  \* sidebar: serving endpoint name
    text_input,     \* tab_text: text area
    df_col_name,    \* tab_text: DataFrame column name
    uploaded,       \* tab_csv: uploaded file, or NoFile
    batch_col,      \* tab_csv: text column in CSV
    limit_rows,     \* tab_csv: max rows to send
    payload_text,   \* tab_json: request JSON text
    btn,            \* the button of the current / last script run
    pc,             \* "idle", or "pending" while blocked in requests.post
    inflight,       \* the requests handed to requests.post and not yet returned
    posts,          \* number of requests.post calls of the current / last run
    resp,           \* what requests.post gave the last run, or NoResp
    shown           \* what the handler of the current / last run rendered

vars == <<host, token, endpoint_name, text_input, df_col_name, uploaded,
          batch_col, limit_rows, payload_text, btn, pc, inflight, posts,
          resp, shown>>

widgets == <<host, token, endpoint_name, text_input, df_col_name, uploaded,
             batch_col, limit_rows, payload_text>>

----------------------------------------------------------------------------
(* Bounds of the model *)

MaxHostLen == 2
MaxTextLen == 2
MaxRows == 2
MaxCols == 2
MaxLimit == 2

(* Sequences over S of length at most n *)
SeqUpTo(S, n) == UNION {[1..k -> S] : k \in 0..n}

----------------------------------------------------------------------------
(* Helpers (lines 27-53) *)

\* str.endswith("/")
EndsWithSlash(url) == Len(url) > 0 /\ url[Len(url)] = "/"

\* A plausible slip: the slash is not removed.
KeepTrailingSlash(url) == url

_strip_trailing_slash(url) ==
    IF EndsWithSlash(url) THEN SubSeq(url, 1, Len(url) - 1) ELSE url

build_invocations_url(h, e) ==
    _strip_trailing_slash(h) \o <<"/", "serving-endpoints", "/">> \o e
        \o <<"/", "invocations">>

----------------------------------------------------------------------------
(* json.loads (lines 111, 160, 187, 199).  A text is a sequence of lexical  *)
(* tokens.  A decoded value is [t |-> type, v |-> contents]: None, a bool,  *)
(* a number and a str hold their token, a list its items, a dict its        *)
(* <<key, value>> pairs in insertion order.                                 *)

PyNone == [t |-> "null", v |-> <<>>]

StrTokens ==
    {"\"a\"", "\"b\"", "\"predictions\"", "\"dataframe_split\"", "\"index\"",
     "\"columns\"", "\"data\"", "\"text\"", "\"hello\""}
NumTokens == {"0", "1", "NaN"}
BoolTokens == {"true", "false"}

Scalar(tok) ==
    IF tok = "null" THEN PyNone
    ELSE IF tok \in BoolTokens THEN [t |-> "bool", v |-> <<tok>>]
    ELSE IF tok \in NumTokens THEN [t |-> "num", v |-> <<tok>>]
    ELSE [t |-> "str", v |-> <<tok>>]

IsScalarToken(tok) == tok = "null" \/ tok \in BoolTokens \cup NumTokens \cup StrTokens

ParseFail == [ok |-> FALSE, val |-> PyNone, next |-> 0]

\* dict[k] = v: a repeated key keeps its place and takes the later value
DictSet(members, k, v) ==
    IF \E i \in 1..Len(members) : members[i][1] = k
    THEN [i \in 1..Len(members) |->
             IF members[i][1] = k THEN <<k, v>> ELSE members[i]]
    ELSE Append(members, <<k, v>>)

RECURSIVE ParseValue(_, _), ParseElements(_, _, _), ParseMembers(_, _, _)

\* the value that starts at token i of s
ParseValue(s, i) ==
    IF i > Len(s) THEN ParseFail
    ELSE IF IsScalarToken(s[i])
        THEN [ok |-> TRUE, val |-> Scalar(s[i]), next |-> i + 1]
    ELSE IF s[i] = "["
        THEN IF i + 1 <= Len(s) /\ s[i + 1] = "]"
             THEN [ok |-> TRUE, val |-> [t |-> "list", v |-> <<>>], next |-> i + 2]
             ELSE ParseElements(s, i + 1, <<>>)
    ELSE IF s[i] = "{"
        THEN IF i + 1 <= Len(s) /\ s[i + 1] = "}"
             THEN [ok |-> TRUE, val |-> [t |-> "dict", v |-> <<>>], next |-> i + 2]
             ELSE ParseMembers(s, i + 1, <<>>)
    ELSE ParseFail

\* the items of a list from token i on, acc being the items before
ParseElements(s, i, acc) ==
    LET r == ParseValue(s, i) IN
    IF ~r.ok \/ r.next > Len(s) THEN ParseFail
    ELSE IF s[r.next] = ","
        THEN ParseElements(s, r.next + 1, Append(acc, r.val))
    ELSE IF s[r.next] = "]"
        THEN [ok |-> TRUE, val |-> [t |-> "list", v |-> Append(acc, r.val)],
              next |-> r.next + 1]
    ELSE ParseFail

\* the members of a dict from token i on, acc being the members before
ParseMembers(s, i, acc) ==
    IF i + 1 > Len(s) \/ s[i] \notin StrTokens \/ s[i + 1] # ":" THEN ParseFail
    ELSE LET r == ParseValue(s, i + 2) IN
        IF ~r.ok \/ r.next > Len(s) THEN ParseFail
        ELSE IF s[r.next] = ","
            THEN ParseMembers(s, r.next + 1, DictSet(acc, s[i], r.val))
        ELSE IF s[r.next] = "}"
            THEN [ok |-> TRUE, val |-> [t |-> "dict", v |-> DictSet(acc, s[i], r.val)],
                  next |-> r.next + 1]
        ELSE ParseFail

\* json.loads(s): ok is FALSE where the code raises (no value, or extra data)
json_loads(s) ==
    LET r == ParseValue(s, 1) IN
    IF r.ok /\ r.next = Len(s) + 1 THEN [ok |-> TRUE, val |-> r.val]
    ELSE [ok |-> FALSE, val |-> PyNone]

\* the texts typed into the raw-JSON area; the first is default_json's shape
\* (lines 176-177), <<"{", "bad">> is the malformed text "{bad"
PayloadTexts ==
    { <<"{", "\"dataframe_split\"", ":", "{",
          "\"index\"", ":", "[", "0", "]", ",",
          "\"columns\"", ":", "[", "\"text\"", "]", ",",
          "\"data\"", ":", "[", "[", "\"hello\"", "]", "]",
        "}", "}">>,
      <<"{", "\"a\"", ":", "[", "\"b\"", "]", "}">>,
      <<"{", "bad">>, <<>>, <<"null">>, <<"true">>, <<"1">>, <<"\"a\"">>,
      <<"[", "]">>, <<"{", "}">>, <<"[", "1", ",", "null", "]">>,
      <<"[", "1", ",", "]">>, <<"1", "1">>,
      <<"{", "\"a\"", ":", "1", ",", "\"a\"", ":", "null", "}">> }

\* the bodies the endpoint answers with
BodyTexts ==
    { <<"{", "\"predictions\"", ":", "[", "1", "]", "}">>,
      <<"internal", "error">>, <<"\"a\"">>, <<>> }

----------------------------------------------------------------------------
(* pandas objects (lines 104, 135, 153, 43).  A DataFrame is                *)
(* [index, columns, data]: the row labels, the column names and the rows.   *)
(* A CSV file is its header fields and its records' fields.  The cell at    *)
(* record i, field j of a file is Cell(i, j), so that every cell of a table *)
(* is told from every other.                                                *)

ColNames == {"text", "id"}

Cell(i, j) == <<"cell", i, j>>
IntLabel(n) == <<"int", n>>

\* RangeIndex(n): the labels 0 .. n-1
RangeIndex(n) == [i \in 1..n |-> IntLabel(i - 1)]

NoFile == [present |-> FALSE, header |-> <<>>, rows |-> <<>>]

CsvFile(h, w, n) ==
    [present |-> TRUE, header |-> h,
     rows |-> [i \in 1..n |-> [j \in 1..w |-> Cell(i, j)]]]

\* an empty upload: read_csv raises EmptyDataError
EmptyFile == [present |-> TRUE, header |-> <<>>, rows |-> <<>>]

Headers == SeqUpTo(ColNames, MaxCols) \ {<<>>}

\* the uploads: every record of a file has as many fields as the header, or
\* one more (a leading label field)
Uploads ==
    {NoFile, EmptyFile} \cup
    UNION {{CsvFile(h, w, n) : w \in {Len(h), Len(h) + 1}, n \in 0..MaxRows} :
           h \in Headers}

\* pandas renames a repeated header field: text, text.1, text.2, ...
Earlier(h, i) == Cardinality({k \in 1..(i - 1) : h[k] = h[i]})

MangleDupes(h) ==
    [i \in 1..Len(h) |->
        IF Earlier(h, i) = 0 THEN h[i] ELSE h[i] \o "." \o ToString(Earlier(h, i))]

\* pd.read_csv(uploaded) with its defaults (index_col=None): when the records
\* have one field more than the header, the first field is the row label;
\* otherwise the rows are labelled 0 .. n-1.  ok is FALSE where it raises.
read_csv(f) ==
    IF f.header = <<>> THEN [ok |-> FALSE, df |-> [index |-> <<>>, columns |-> <<>>, data |-> <<>>]]
    ELSE LET m == Len(f.header)
             n == Len(f.rows)
             labelled == n > 0 /\ Len(f.rows[1]) = m + 1
         IN [ok |-> TRUE,
             df |-> [index |-> IF labelled THEN [i \in 1..n |-> f.rows[i][1]]
                               ELSE RangeIndex(n),
                     columns |-> MangleDupes(f.header),
                     data |-> IF labelled
                              THEN [i \in 1..n |-> [j \in 1..m |-> f.rows[i][j + 1]]]
                              ELSE f.rows]]

\* lines 133-142: df_csv is None without an upload or when read_csv raised
df_csv_is_None(f) == ~f.present \/ ~read_csv(f).ok

df_csv_of(f) == read_csv(f).df

\* pd.DataFrame([{col: text}]): one row labelled 0, one column
OneRowFrame(col, text) ==
    [index |-> RangeIndex(1), columns |-> <<col>>, data |-> << <<text>> >>]

\* c in df.columns
HasColumn(df, c) == \E j \in 1..Len(df.columns) : df.columns[j] = c

ColumnPos(df, c) == CHOOSE j \in 1..Len(df.columns) : df.columns[j] = c

\* df[[c]]: the one column c, every row, the same labels
SelectColumn(df, c) ==
    [index |-> df.index, columns |-> <<c>>,
     data |-> [i \in 1..Len(df.data) |-> <<df.data[i][ColumnPos(df, c)]>>]]

Min(a, b) == IF a <= b THEN a ELSE b

\* A plausible slip: the cap is not applied.
HeadAll(df, n) == df

\* df.head(n), n >= 1
head(df, n) ==
    [index |-> SubSeq(df.index, 1, Min(n, Len(df.index))),
     columns |-> df.columns,
     data |-> SubSeq(df.data, 1, Min(n, Len(df.data)))]

\* df.to_dict(orient="split")
to_dict_split(df) == [index |-> df.index, columns |-> df.columns, data |-> df.data]

build_dataframe_split_payload(df) == [dataframe_split |-> to_dict_split(df)]

----------------------------------------------------------------------------
(* What a handler renders: [fn, msg, status, text, val], fn being the       *)
(* Streamlit call (st.error, st.warning, st.success, st.json, st.code,      *)
(* st.exception).                                                           *)

Element(fn, msg) == [fn |-> fn, msg |-> msg, status |-> 0, text |-> <<>>, val |-> PyNone]

StError(msg) == Element("error", msg)
StWarning(msg) == Element("warning", msg)
StSuccess == Element("success", "Success")
StException(e) == Element("exception", e)
StRequestFailed(status) == [Element("error", "Request failed") EXCEPT !.status = status]
StJson(val) == [Element("json", "") EXCEPT !.val = val]
StCode(text) == [Element("code", "") EXCEPT !.text = text]

----------------------------------------------------------------------------
(* The widgets' values *)

HostChars == {"h", "/"}
Hosts == SeqUpTo(HostChars, MaxHostLen)
Tokens == {<<>>, <<"t">>}
EndpointNames == {<<>>, <<"e">>}

Whitespace == {" "}
TextInputs == SeqUpTo({" ", "x"}, MaxTextLen)

BatchCols == ColNames \cup {"label", "text.1"}
Limits == 1..MaxLimit

\* line 126: value=32
DefaultLimit == 32

\* lines 176-177
default_json ==
    <<"{", "\"dataframe_split\"", ":", "{",
        "\"index\"", ":", "[", "0", "]", ",",
        "\"columns\"", ":", "[", "\"text\"", "]", ",",
        "\"data\"", ":", "[", "[", "\"hello\"", "]", "]",
      "}", "}">>

----------------------------------------------------------------------------
(* The handlers' decisions, lines 97-107, 144-156, 182-195: what is         *)
(* rendered before the POST, whether call_endpoint is called, with what.    *)

\* A plausible slip: the endpoint name is not checked.
config_missing_no_endpoint(h, t, e) == h = <<>> \/ t = <<>>

\* not host or not token or not endpoint_name
config_missing(h, t, e) == h = <<>> \/ t = <<>> \/ e = <<>>

RECURSIVE lstrip(_)
lstrip(s) == IF s # <<>> /\ s[1] \in Whitespace THEN lstrip(Tail(s)) ELSE s

RECURSIVE rstrip(_)
rstrip(s) ==
    IF s # <<>> /\ s[Len(s)] \in Whitespace THEN rstrip(SubSeq(s, 1, Len(s) - 1)) ELSE s

\* str.strip()
strip(s) == rstrip(lstrip(s))

Reject(el) == [send |-> FALSE, shown |-> <<el>>, payload |-> PyNone]
Send(payload) == [send |-> TRUE, shown |-> <<>>, payload |-> payload]

\* lines 97-107
run_btn_handler(h, t, e, txt, col) ==
    IF config_missing(h, t, e) THEN Reject(StError("Please fill Host, PAT, and Endpoint Name"))
    ELSE IF strip(txt) = <<>> THEN Reject(StWarning("Please enter some text."))
    ELSE Send(build_dataframe_split_payload(OneRowFrame(col, txt)))

\* lines 144-156
run_batch_handler(h, t, e, f, col, limit) ==
    IF config_missing(h, t, e) THEN Reject(StError("Please fill Host, PAT, and Endpoint Name"))
    ELSE IF df_csv_is_None(f) THEN Reject(StWarning("Please upload a CSV first."))
    ELSE IF ~HasColumn(df_csv_of(f), col) THEN Reject(StError("Column not found in CSV."))
    ELSE Send(build_dataframe_split_payload(head(SelectColumn(df_csv_of(f), col), limit)))

\* A plausible slip: the payload is sent whatever it is.
payload_always_sent(payload) == TRUE

\* line 192: payload is not None
payload_is_not_None(payload) == payload # PyNone

\* lines 182-195
send_raw_handler(h, t, e, text) ==
    IF config_missing(h, t, e) THEN Reject(StError("Please fill Host, PAT, and Endpoint Name"))
    ELSE LET r == json_loads(text)
             payload == IF r.ok THEN r.val ELSE PyNone
             err == IF r.ok THEN <<>> ELSE <<StError("Invalid JSON")>>
         IN [send |-> payload_is_not_None(payload), shown |-> err, payload |-> payload]

\* line 45
timeout_s == 120

\* lines 45-53: the request handed to requests.post.  payload is the object
\* json.dumps serialises into the body.
call_endpoint(h, t, e, payload) ==
    [url |-> build_invocations_url(h, e),
     authorization |-> <<"Bearer", " ">> \o t,
     content_type |-> "application/json",
     payload |-> payload,
     timeout |-> timeout_s]

----------------------------------------------------------------------------
(* What requests.post gives back: a response (status code and body text),   *)
(* or an exception (timeout, connection failure).                           *)

\* line 108
HTTP_OK == 200

StatusCodes == {HTTP_OK, 201, 302, 404, 500}
Raised == {"Timeout", "ConnectionError"}

NoResp == [kind |-> "none", exc |-> "", status_code |-> 0, text |-> <<>>]
Response(status, body) == [kind |-> "response", exc |-> "", status_code |-> status, text |-> body]
Raise(e) == [kind |-> "raised", exc |-> e, status_code |-> 0, text |-> <<>>]

PostResults ==
    {Response(c, b) : c \in StatusCodes, b \in BodyTexts} \cup {Raise(e) : e \in Raised}

\* A plausible slip: every 2xx status counts as success.
is_success_2xx(status_code) == status_code >= 200 /\ status_code < 300

\* lines 108, 157, 196: resp.status_code == 200
is_success(status_code) == status_code = HTTP_OK

\* A plausible slip: the body is rendered as JSON whenever it parses.
show_body_any_status(r) ==
    IF json_loads(r.text).ok THEN <<StJson(json_loads(r.text).val)>> ELSE <<StCode(r.text)>>

\* lines 110-113 and 116: st.json(resp.json()), st.code(resp.text) when that
\* raises; st.code(resp.text) for a failed request
show_body(r) ==
    IF is_success(r.status_code)
    THEN IF json_loads(r.text).ok THEN <<StJson(json_loads(r.text).val)>>
         ELSE <<StCode(r.text)>>
    ELSE <<StCode(r.text)>>

\* lines 108-118, 157-167, 196-206: the handler after requests.post
render(r) ==
    IF r.kind = "raised" THEN <<StException(r.exc)>>
    ELSE IF is_success(r.status_code) THEN <<StSuccess>> \o show_body(r)
    ELSE <<StRequestFailed(r.status_code)>> \o show_body(r)

----------------------------------------------------------------------------
(* The state machine.  Streamlit runs the script once per interaction.  A   *)
(* widget edit runs it with no button pressed: no handler runs and nothing  *)
(* of an earlier handler stays rendered.  A button press runs it with that  *)
(* button's handler, on the widgets' values of that moment.  Reloading the  *)
(* page starts a new session with every widget at its initial value.        *)
(*                                                                          *)
(* The user fills a freshly loaded page in once (the sidebar and the        *)
(* widgets of one tab), then presses buttons any number of times, and       *)
(* reloads the page to fill it in differently.  shown holds what the button *)
(* handlers render; the upload preview (lines 136-139) is not tracked.      *)

Init ==
    /\ host = <<>>
    /\ token = <<>>
    /\ endpoint_name = <<>>
    /\ text_input = <<>>
    /\ df_col_name = "text"
    /\ uploaded = NoFile
    /\ batch_col = "text"
    /\ limit_rows = DefaultLimit
    /\ payload_text = default_json
    /\ btn = "none"
    /\ pc = "idle"
    /\ inflight = {}
    /\ posts = 0
    /\ resp = NoResp
    /\ shown = <<>>

\* the page as loaded: no widget edited, no button pressed
Fresh ==
    /\ pc = "idle" /\ btn = "none"
    /\ widgets = <<<<>>, <<>>, <<>>, <<>>, "text", NoFile, "text", DefaultLimit,
                   default_json>>

Sidebar(h, t, e) ==
    /\ host' = h
    /\ token' = t
    /\ endpoint_name' = e

\* the user fills in the sidebar and the Single Text tab
FillText ==
    /\ Fresh
    /\ \E h \in Hosts, t \in Tokens, e \in EndpointNames,
          txt \in TextInputs, col \in ColNames :
        /\ Sidebar(h, t, e)
        /\ text_input' = txt
        /\ df_col_name' = col
    /\ UNCHANGED <<uploaded, batch_col, limit_rows, payload_text, btn, pc,
                   inflight, posts, resp, shown>>

\* the user fills in the sidebar and the Batch CSV tab
FillBatch ==
    /\ Fresh
    /\ \E h \in Hosts, t \in Tokens, e \in EndpointNames,
          f \in Uploads, col \in BatchCols, limit \in Limits :
        /\ Sidebar(h, t, e)
        /\ uploaded' = f
        /\ batch_col' = col
        /\ limit_rows' = limit
    /\ UNCHANGED <<text_input, df_col_name, payload_text, btn, pc, inflight,
                   posts, resp, shown>>

\* the user fills in the sidebar and the Raw JSON tab
FillRaw ==
    /\ Fresh
    /\ \E h \in Hosts, t \in Tokens, e \in EndpointNames, text \in PayloadTexts :
        /\ Sidebar(h, t, e)
        /\ payload_text' = text
    /\ UNCHANGED <<text_input, df_col_name, uploaded, batch_col, limit_rows, btn,
                   pc, inflight, posts, resp, shown>>

\* the script run of a pressed button b up to requests.post, d being the
\* handler's decision
Press(b, d) ==
    /\ btn' = b
    /\ resp' = NoResp
    /\ shown' = d.shown
    /\ IF d.send
       THEN /\ inflight' = inflight \cup
                   {call_endpoint(host, token, endpoint_name, d.payload)}
            /\ posts' = 1
            /\ pc' = "pending"
       ELSE /\ inflight' = inflight
            /\ posts' = 0
            /\ pc' = "idle"
    /\ UNCHANGED widgets

\* tab_text: "Invoke Endpoint" pressed
RunBtn ==
    /\ pc = "idle"
    /\ Press("run_btn", run_btn_handler(host, token, endpoint_name, text_input, df_col_name))

\* tab_csv: "Invoke Batch" pressed
RunBatch ==
    /\ pc = "idle"
    /\ Press("run_batch",
             run_batch_handler(host, token, endpoint_name, uploaded, batch_col, limit_rows))

\* tab_json: "Send Raw JSON" pressed
SendRawBtn ==
    /\ pc = "idle"
    /\ Press("send_raw_btn", send_raw_handler(host, token, endpoint_name, payload_text))

\* A plausible slip: a failed request is posted again.
ReturnAndRetry ==
    /\ pc = "pending"
    /\ \E req \in inflight, r \in PostResults :
        /\ resp' = r
        /\ shown' = shown \o render(r)
        /\ IF r.kind = "response" /\ is_success(r.status_code)
           THEN inflight' = inflight \ {req} /\ posts' = posts /\ pc' = "idle"
           ELSE inflight' = inflight /\ posts' = 2 /\ pc' = "pending"
    /\ UNCHANGED <<widgets, btn>>

\* requests.post returns or raises, and the handler renders the outcome
\* (lines 52-53, then 108-118, 157-167 or 196-206); the script run ends
Return ==
    /\ pc = "pending"
    /\ \E req \in inflight, r \in PostResults :
        /\ inflight' = inflight \ {req}
        /\ resp' = r
        /\ shown' = shown \o render(r)
    /\ pc' = "idle"
    /\ UNCHANGED <<widgets, btn, posts>>

\* the page is reloaded: a new session, as at first
Reload ==
    /\ pc = "idle"
    /\ ~Fresh
    /\ host' = <<>>
    /\ token' = <<>>
    /\ endpoint_name' = <<>>
    /\ text_input' = <<>>
    /\ df_col_name' = "text"
    /\ uploaded' = NoFile
    /\ batch_col' = "text"
    /\ limit_rows' = DefaultLimit
    /\ payload_text' = default_json
    /\ btn' = "none"
    /\ pc' = "idle"
    /\ inflight' = {}
    /\ posts' = 0
    /\ resp' = NoResp
    /\ shown' = <<>>

Next ==
    \/ FillText \/ FillBatch \/ FillRaw
    \/ RunBtn \/ RunBatch \/ SendRawBtn
    \/ Return
    \/ Reload

Spec == Init /\ [][Next]_vars

----------------------------------------------------------------------------
(* Properties *)

\* the sidebar is filled in
Configured == host # <<>> /\ token # <<>> /\ endpoint_name # <<>>

Rendered(fn) == \E i \in 1..Len(shown) : shown[i].fn = fn

\* the last run ended with st.success
Succeeded == Rendered("success")

\* the last run ended with "Request failed: HTTP ..." or with st.exception
Failed ==
    \/ \E i \in 1..Len(shown) : shown[i].fn = "error" /\ shown[i].msg = "Request failed"
    \/ Rendered("exception")

\* the last run rendered the body as raw text, or as parsed JSON
BodyAsText == \E i \in 1..Len(shown) : shown[i].fn = "code" /\ shown[i].text = resp.text
BodyAsJson ==
    \E i \in 1..Len(shown) :
        shown[i].fn = "json" /\ shown[i].val = json_loads(resp.text).val

\* C1: in raw-JSON mode, when the request text does not parse as JSON, an
\* error is rendered and no request is posted.
C1_ParseFailureNeverSends ==
    (btn = "send_raw_btn" /\ ~json_loads(payload_text).ok) =>
        /\ posts = 0 /\ pc = "idle" /\ inflight = {}
        /\ Rendered("error")

C1_Witness ==
    /\ btn = "send_raw_btn" /\ Configured
    /\ payload_text = <<"{", "bad">>
    /\ shown = <<StError("Invalid JSON")>>
    /\ posts = 0

\* C2: in raw-JSON mode with the sidebar filled in, every text that parses as
\* a JSON value is posted exactly once, the payload being the parsed value.
C2_EveryParsedValueIsSent ==
    (btn = "send_raw_btn" /\ Configured /\ json_loads(payload_text).ok) =>
        /\ posts = 1
        /\ pc = "pending" =>
              \A req \in inflight : req.payload = json_loads(payload_text).val

\* C3: in every mode, a missing required field (host, token or endpoint name;
\* blank text in single-text mode; no upload in batch mode) or a column name
\* absent from the table ends the run with one error or warning, and nothing
\* is posted.
InputMissing ==
    \/ host = <<>> \/ token = <<>> \/ endpoint_name = <<>>
    \/ btn = "run_btn" /\ \A i \in 1..Len(text_input) : text_input[i] = " "
    \/ btn = "run_batch" /\ ~uploaded.present
    \/ btn = "run_batch" /\ uploaded.present /\ uploaded.header # <<>>
         /\ \A j \in 1..Len(df_csv_of(uploaded).columns) :
                df_csv_of(uploaded).columns[j] # batch_col

C3_MissingInputNeverSends ==
    (btn # "none" /\ InputMissing) =>
        /\ posts = 0 /\ pc = "idle" /\ inflight = {} /\ resp = NoResp
        /\ Len(shown) = 1 /\ shown[1].fn \in {"error", "warning"}

C3_Witness ==
    /\ btn = "run_batch" /\ Configured
    /\ uploaded.present /\ Len(uploaded.rows) > 0
    /\ batch_col = "label"
    /\ shown = <<StError("Column not found in CSV.")>>
    /\ posts = 0

InvocationsPath(h, e) == h \o <<"/", "serving-endpoints", "/">> \o e \o <<"/", "invocations">>

\* C4 as stated: for every host h and endpoint name e the URL built from h,
\* the URL built from h + "/" and h + "/serving-endpoints/" + e +
\* "/invocations" are the same.
C4_AnyHost ==
    pc = "pending" =>
        \A req \in inflight :
            /\ req.url = build_invocations_url(host \o <<"/">>, endpoint_name)
            /\ req.url = InvocationsPath(host, endpoint_name)

\* C4 amended: the same, for every host h that does not itself end in "/".
C4_HostWithoutTrailingSlash ==
    (pc = "pending" /\ host[Len(host)] # "/") =>
        \A req \in inflight :
            /\ req.url = build_invocations_url(host \o <<"/">>, endpoint_name)
            /\ req.url = InvocationsPath(host, endpoint_name)

C4_Witness ==
    /\ pc = "pending" /\ host = <<"/", "h">>
    /\ \E req \in inflight :
          req.url = <<"/", "h", "/", "serving-endpoints", "/", "e", "/", "invocations">>

\* C5: whenever requests.post returned a response, in any mode, the run
\* succeeded exactly when the status code is 200; with any other status it
\* failed, and the status code and the body are rendered.
C5_SuccessIffStatus200 ==
    resp.kind = "response" =>
        /\ Succeeded <=> resp.status_code = 200
        /\ Failed <=> resp.status_code # 200
        /\ resp.status_code # 200 =>
              /\ \E i \in 1..Len(shown) :
                    shown[i].fn = "error" /\ shown[i].status = resp.status_code
              /\ BodyAsText

C5_Witness ==
    /\ btn = "run_batch" /\ resp.kind = "response" /\ resp.status_code = 201
    /\ Failed /\ ~Succeeded /\ BodyAsText

\* C6 as stated: whatever the status code, the body is rendered as parsed
\* JSON when it is valid JSON and as raw text otherwise.
C6_AnyStatus ==
    resp.kind = "response" =>
        IF json_loads(resp.text).ok THEN BodyAsJson /\ ~Rendered("code")
        ELSE BodyAsText /\ ~Rendered("json")

\* C6 amended: with status 200 the body is rendered as parsed JSON when it is
\* valid JSON and as raw text otherwise, the run counting as succeeded either
\* way; with any other status the body is rendered as raw text, valid JSON
\* or not.
C6_ParsedOnlyOnStatus200 ==
    resp.kind = "response" =>
        IF resp.status_code = 200
        THEN /\ Succeeded
             /\ IF json_loads(resp.text).ok THEN BodyAsJson /\ ~Rendered("code")
                ELSE BodyAsText /\ ~Rendered("json")
        ELSE BodyAsText /\ ~Rendered("json")

C6_Witness ==
    /\ resp.kind = "response" /\ resp.status_code = 200
    /\ resp.text = <<"internal", "error">>
    /\ shown = <<StSuccess, StCode(<<"internal", "error">>)>>

\* the frame a DataFrame-mode handler hands to build_dataframe_split_payload
FrameSent ==
    IF btn = "run_btn" THEN OneRowFrame(df_col_name, text_input)
    ELSE head(SelectColumn(df_csv_of(uploaded), batch_col), limit_rows)

\* C7: for a frame of N rows and M columns the payload is
\* {"dataframe_split": S} with S.columns the M column names in order, S.index
\* exactly 0 .. N-1, and S.data the N rows of M cells in order.
C7_SplitPayloadShape ==
    (pc = "pending" /\ btn \in {"run_btn", "run_batch"}) =>
        \A req \in inflight :
            LET S == req.payload.dataframe_split
                N == Len(FrameSent.data)
                M == Len(FrameSent.columns)
            IN /\ Len(S.columns) = M /\ S.columns = FrameSent.columns
               /\ S.index = [i \in 1..N |-> IntLabel(i - 1)]
               /\ Len(S.data) = N
               /\ \A i \in 1..N :
                     /\ Len(S.data[i]) = M
                     /\ \A j \in 1..M : S.data[i][j] = FrameSent.data[i][j]

\* C8: a button press posts at most once and goes from pending straight to
\* exactly one of succeeded and failed; no failure is followed by a second
\* POST, and at most one request is in flight.
C8_OnePostPerAction ==
    [][ /\ posts' <= 1
        /\ Cardinality(inflight') <= 1
        /\ pc = "pending" =>
              /\ pc' = "idle" /\ inflight' = {} /\ posts' = posts
              /\ Succeeded' # Failed' ]_vars

C8_Witness ==
    /\ pc = "idle" /\ posts = 1 /\ inflight = {}
    /\ resp = Raise("Timeout")
    /\ Failed /\ ~Succeeded

\* C9: however a button press ends, something is rendered for it and the
\* page is idle again.
C9_EveryRunRendersSomething ==
    (pc = "idle" /\ btn # "none") => Len(shown) > 0

\* C10: in batch mode the payload posted has the one column batch_col and
\* exactly the first min(limit_rows, R) rows of that column of the R-row
\* table, in order.
C10_BatchColumnAndCap ==
    (pc = "pending" /\ btn = "run_batch") =>
        \A req \in inflight :
            LET S == req.payload.dataframe_split
                table == df_csv_of(uploaded)
                R == Len(table.data)
                c == CHOOSE j \in 1..Len(table.columns) : table.columns[j] = batch_col
                sent == IF limit_rows <= R THEN limit_rows ELSE R
            IN /\ S.columns = <<batch_col>>
               /\ Len(S.data) = sent /\ Len(S.index) = sent
               /\ Len(S.data) <= limit_rows
               /\ \A i \in 1..sent : S.data[i] = <<table.data[i][c]>>

C10_Witness ==
    /\ pc = "pending" /\ btn = "run_batch"
    /\ Len(uploaded.header) = 2 /\ Len(uploaded.rows) = 2 /\ limit_rows = 1
    /\ batch_col = "id"
    /\ \E req \in inflight :
          /\ req.payload.dataframe_split.columns = <<"id">>
          /\ Len(req.payload.dataframe_split.data) = 1

====
